---- MODULE Spec2Model ----
(***************************************************************************)
(* Model of backend/server.js: the Express application with its JSON body  *)
(* parser, the POST /analyze handler, and the model provider the handler   *)
(* awaits.  JavaScript values are tagged records; a string is a sequence   *)
(* of characters, where a character is a one-lexeme chunk of text.         *)
(***************************************************************************)
EXTENDS Integers, Sequences, FiniteSets

\* Number of HTTP requests that may be in flight together.
NumReq == 2

Req == 1..NumReq

----------------------------------------------------------------------------
\* JavaScript values

Undefined == [t |-> "undefined"]
Null == [t |-> "null"]
Num(lit) == [t |-> "num", lit |-> lit]
Str(chars) == [t |-> "str", chars |-> chars]
Arr(items) == [t |-> "arr", items |-> items]
Obj(props) == [t |-> "obj", props |-> props]
\* A long string known by its length and its content, not character by character.
Img(len, content) == [t |-> "str", len |-> len, content |-> content]

S(word) == Str(<<word>>)
Prop(key, val) == <<<<key>>, val>>

IsLongStr(v) == v.t = "str" /\ "len" \in DOMAIN v
Length(v) == IF IsLongStr(v) THEN v.len ELSE Len(v.chars)

\* ToBoolean
Truthy(v) ==
  CASE v.t = "undefined" -> FALSE
    [] v.t = "null" -> FALSE
    [] v.t = "num" -> v.lit \notin {"0", "-0", "NaN"}
    [] v.t = "str" -> Length(v) > 0
    [] OTHER -> TRUE

TypeofString(v) == v.t = "str"

HasOwn(o, key) == \E i \in 1..Len(o.props) : o.props[i][1] = key

\* o[key] for a value that is not undefined or null
GetProp(o, key) ==
  IF o.t = "obj" /\ HasOwn(o, key)
  THEN o.props[CHOOSE i \in 1..Len(o.props) : o.props[i][1] = key][2]
  ELSE Undefined

\* v[0] for a value that is not undefined or null
GetIndex0(v) ==
  CASE v.t = "arr" -> IF Len(v.items) > 0 THEN v.items[1] ELSE Undefined
    [] v.t = "str" /\ ~IsLongStr(v) ->
         IF Len(v.chars) > 0 THEN Str(<<v.chars[1]>>) ELSE Undefined
    [] OTHER -> Undefined

Nullish(v) == v.t \in {"undefined", "null"}

\* v?.[0] and v?.key
OptIndex0(v) == IF Nullish(v) THEN Undefined ELSE GetIndex0(v)
OptProp(v, key) == IF Nullish(v) THEN Undefined ELSE GetProp(v, key)

----------------------------------------------------------------------------
\* JSON.parse and JSON.stringify over sequences of characters

Q == "\""
NumberLits == {"0", "7", "-0", "1e400"}

\* The double a number literal denotes: 1e400 is beyond the double range.
NumberValue(lit) == IF lit = "1e400" THEN Num("Infinity") ELSE Num(lit)

\* The element of a one-element set.  A value bound as the element of a set
\* is computed once, however often it is used.
Only(set) == CHOOSE x \in set : TRUE

SyntaxError == [ok |-> FALSE, val |-> Undefined, next |-> 0]
Parsed(val, next) == [ok |-> TRUE, val |-> val, next |-> next]

\* The position of the closing quote of a string opened before position i, or 0.
RECURSIVE ClosingQuote(_, _)
ClosingQuote(text, i) ==
  IF i > Len(text) THEN 0
  ELSE IF text[i] = Q THEN i
  ELSE ClosingQuote(text, i + 1)

\* CreateDataProperty: a repeated key keeps its place and takes the last value.
DefineProp(props, key, val) ==
  IF \E i \in 1..Len(props) : props[i][1] = key
  THEN [i \in 1..Len(props) |-> IF props[i][1] = key THEN <<key, val>> ELSE props[i]]
  ELSE Append(props, <<key, val>>)

RECURSIVE ParseValue(_, _), ParseElements(_, _, _), ParseMembers(_, _, _)
ParseValue(text, i) ==
  IF i > Len(text) THEN SyntaxError
  ELSE LET c == text[i] IN
    CASE c \in NumberLits -> Parsed(NumberValue(c), i + 1)
      [] c = "null" -> Parsed(Null, i + 1)
      [] c = Q ->
           Only({ IF j = 0 THEN SyntaxError
                  ELSE Parsed(Str(SubSeq(text, i + 1, j - 1)), j + 1)
                  : j \in {ClosingQuote(text, i + 1)} })
      [] c = "[" ->
           IF i + 1 <= Len(text) /\ text[i + 1] = "]"
           THEN Parsed(Arr(<<>>), i + 2)
           ELSE ParseElements(text, i + 1, <<>>)
      [] c = "{" ->
           IF i + 1 <= Len(text) /\ text[i + 1] = "}"
           THEN Parsed(Obj(<<>>), i + 2)
           ELSE ParseMembers(text, i + 1, <<>>)
      [] OTHER -> SyntaxError

ParseElements(text, i, acc) ==
  Only({ IF ~v.ok \/ v.next > Len(text) THEN SyntaxError
         ELSE IF text[v.next] = "]" THEN Parsed(Arr(Append(acc, v.val)), v.next + 1)
         ELSE IF text[v.next] = "," THEN ParseElements(text, v.next + 1, Append(acc, v.val))
         ELSE SyntaxError
         : v \in {ParseValue(text, i)} })

ParseMembers(text, i, acc) ==
  IF i > Len(text) \/ text[i] # Q THEN SyntaxError
  ELSE Only({
    IF j = 0 \/ j + 1 > Len(text) \/ text[j + 1] # ":" THEN SyntaxError
    ELSE Only({ IF ~v.ok \/ v.next > Len(text) THEN SyntaxError
                ELSE IF text[v.next] = "}"
                  THEN Parsed(Obj(DefineProp(acc, SubSeq(text, i + 1, j - 1), v.val)),
                              v.next + 1)
                ELSE IF text[v.next] = ","
                  THEN ParseMembers(text, v.next + 1,
                                    DefineProp(acc, SubSeq(text, i + 1, j - 1), v.val))
                ELSE SyntaxError
                : v \in {ParseValue(text, j + 2)} })
    : j \in {ClosingQuote(text, i + 1)} })

\* Mutant of JSON_parse_text: what follows the first value is ignored.
JSON_parse_prefix(text) == ParseValue(text, 1)

\* JSON.parse of a character sequence: the whole text must be one value.
JSON_parse_text(text) ==
  Only({ IF r.ok /\ r.next = Len(text) + 1 THEN r ELSE SyntaxError
         : r \in {ParseValue(text, 1)} })

RECURSIVE JoinItems(_, _)
\* ToString of the argument JSON.parse receives
RECURSIVE ToString(_)
ToString(v) ==
  CASE v.t = "str" -> v.chars
    [] v.t = "undefined" -> <<"undefined">>
    [] v.t = "null" -> <<"null">>
    [] v.t = "num" -> <<v.lit>>
    [] v.t = "arr" -> JoinItems(v.items, 1)
    [] OTHER -> <<"[object Object]">>

JoinItems(items, i) ==
  IF i > Len(items) THEN <<>>
  ELSE (IF Nullish(items[i]) THEN <<>> ELSE ToString(items[i]))
       \o (IF i < Len(items) THEN <<",">> ELSE <<>>)
       \o JoinItems(items, i + 1)

JSON_parse(v) == Only({ JSON_parse_text(text) : text \in {ToString(v)} })

\* JSON.stringify of a number: a non-finite number is written null, -0 is written 0.
StringifyNumber(lit) ==
  IF lit \in {"Infinity", "-Infinity", "NaN"} THEN "null"
  ELSE IF lit = "-0" THEN "0"
  ELSE lit

RECURSIVE JSON_stringify(_), StringifyItems(_, _), StringifyProps(_, _)
JSON_stringify(v) ==
  CASE v.t = "num" -> <<StringifyNumber(v.lit)>>
    [] v.t = "null" -> <<"null">>
    [] v.t = "str" -> <<Q>> \o v.chars \o <<Q>>
    [] v.t = "arr" -> <<"[">> \o StringifyItems(v.items, 1) \o <<"]">>
    [] v.t = "obj" -> <<"{">> \o StringifyProps(v.props, 1) \o <<"}">>
    [] OTHER -> <<>>

StringifyItems(items, i) ==
  IF i > Len(items) THEN <<>>
  ELSE JSON_stringify(items[i])
       \o (IF i < Len(items) THEN <<",">> ELSE <<>>)
       \o StringifyItems(items, i + 1)

StringifyProps(props, i) ==
  IF i > Len(props) THEN <<>>
  ELSE <<Q>> \o props[i][1] \o <<Q, ":">> \o JSON_stringify(props[i][2])
       \o (IF i < Len(props) THEN <<",">> ELSE <<>>)
       \o StringifyProps(props, i + 1)

----------------------------------------------------------------------------
\* The HTTP layer: express.json({ limit: "4mb" })

ImageLimit == 4000000
BodyLimit == 4 * 1024 * 1024

\* Bytes of the keys that occur in request bodies, with their quotes and colon.
KeyBytes(key) == IF key = <<"imageBase64">> THEN 14 ELSE 7

\* Bytes of a value as written in a request body.
ValueBytes(v) ==
  CASE IsLongStr(v) -> v.len + 2
    [] v.t = "null" -> 4
    [] v.t = "arr" -> 2
    [] OTHER -> 1

RECURSIVE PropsBytes(_, _)
PropsBytes(props, i) ==
  IF i > Len(props) THEN 0
  ELSE KeyBytes(props[i][1]) + ValueBytes(props[i][2])
       + (IF i < Len(props) THEN 1 ELSE 0) + PropsBytes(props, i + 1)

\* Content-Length of a request whose JSON body is the object or array `body`.
ContentLength(body) ==
  IF body.t = "obj" THEN 2 + PropsBytes(body.props, 1) ELSE ValueBytes(body)

\* The page Express's default error handler writes: it is not JSON.
ErrorPage == <<"<!DOCTYPE html>">>
DefaultErrorHandler(status) == [status |-> status, body |-> ErrorPage, by |-> "express"]

\* What express.json does with a request: it answers through the default
\* error handler (`error` holds the response), or it calls the route with one
\* of `bodies` as req.body.  A request without a JSON body reaches the route
\* with req.body either {} (body-parser 1.x) or undefined (body-parser 2.x):
\* the source does not fix which.
JsonParser(h) ==
  CASE h.kind = "nobody" ->
         [error |-> <<>>, bodies |-> {Undefined, Obj(<<>>)}]
    [] h.kind = "malformed" ->
         [error |-> <<DefaultErrorHandler(400)>>, bodies |-> {}]
    [] OTHER ->
         IF ContentLength(h.body) > BodyLimit
         THEN [error |-> <<DefaultErrorHandler(413)>>, bodies |-> {}]
         ELSE [error |-> <<>>, bodies |-> {h.body}]

----------------------------------------------------------------------------
\* The POST /analyze handler

MsgMissing == "Falta imageBase64 (dataURL base64 de la imagen)."
MsgTooLarge == "La imagen es demasiado grande."
MsgFormat == "Formato inesperado de respuesta del modelo."
MsgParse == "No se ha podido interpretar la respuesta de la IA."
MsgInternal == "Error interno analizando la imagen."

\* res.status(status).json(val)
Json(status, val) == [status |-> status, body |-> JSON_stringify(val), by |-> "handler"]
ErrorBody(msg) == Obj(<<Prop("error", S(msg))>>)

TypeError == [name |-> "TypeError", message |-> "Cannot destructure property of undefined"]

\* const { imageBase64 } = req.body
Destructure(body) ==
  IF Nullish(body) THEN [threw |-> TRUE, val |-> Undefined]
  ELSE [threw |-> FALSE, val |-> GetProp(body, <<"imageBase64">>)]

\* !imageBase64 || typeof imageBase64 !== "string"
Missing(img) == ~Truthy(img) \/ ~TypeofString(img)

\* Mutant of TooLarge: the image is held to the HTTP layer's limit.
TooLargeBodyLimit(img) == Length(img) > BodyLimit

\* imageBase64.length > 4_000_000
TooLarge(img) == Length(img) > ImageLimit

buildPhotoPrompt == "Eres un jurado experto en fotografia digital y creatividad visual."

\* The argument of client.responses.create
CreateArgs(img) ==
  [model |-> "gpt-4.1-mini",
   input |-> <<[type |-> "input_text", text |-> buildPhotoPrompt],
               [type |-> "input_image", image_url |-> img]>>,
   schema |-> "PhotoEvaluation"]

\* What a run of handler code does: the responses it writes, the calls to
\* client.responses.create it makes, and whether an exception leaves the handler.
Effect(send, create, escaped) == [send |-> send, create |-> create, escaped |-> escaped]

\* Mutant of CatchAll: the answer carries the exception's message.
CatchAllLeaky(err) == Effect(<<Json(500, ErrorBody(err.message))>>, <<>>, FALSE)

\* Mutant of FormatError: the call is made again instead of answering.
FormatErrorRetry(response) ==
  Effect(<<>>, <<[model |-> "gpt-4.1-mini", retryOf |-> response]>>, FALSE)

\* catch (err): the answer does not use err
CatchAll(err) == Effect(<<Json(500, ErrorBody(MsgInternal))>>, <<>>, FALSE)

\* Mutant of RejectMissing: the return is missing and the handler goes on to
\* the call.
RejectMissingNoReturn(img) ==
  Effect(<<Json(400, ErrorBody(MsgMissing))>>, <<CreateArgs(img)>>, FALSE)

\* The 400 answers of the two validation checks, each followed by return
RejectMissing(img) == Effect(<<Json(400, ErrorBody(MsgMissing))>>, <<>>, FALSE)
RejectTooLarge(img) == Effect(<<Json(400, ErrorBody(MsgTooLarge))>>, <<>>, FALSE)

\* The handler from its entry to the await
AnalyzeEntry(body) ==
  LET d == Destructure(body) IN
  IF d.threw THEN CatchAll(TypeError)
  ELSE IF Missing(d.val) THEN RejectMissing(d.val)
  ELSE IF TooLarge(d.val) THEN RejectTooLarge(d.val)
  ELSE Effect(<<>>, <<CreateArgs(d.val)>>, FALSE)

\* Mutant of FirstContent: the first content item of the last output item.
FirstContentOfLastItem(response) ==
  LET output == GetProp(response, <<"output">>) IN
  IF output.t = "arr" /\ Len(output.items) > 0
  THEN OptIndex0(OptProp(output.items[Len(output.items)], <<"content">>))
  ELSE Undefined

\* response.output?.[0]?.content?.[0]
FirstContent(response) ==
  OptIndex0(OptProp(OptIndex0(GetProp(response, <<"output">>)), <<"content">>))

\* Mutant of IsOutputText: the type of the block is not looked at.
IsAnyBlock(content) == Truthy(content)

\* the negation of: !content || content.type !== "output_text"
IsOutputText(content) ==
  Truthy(content) /\ GetProp(content, <<"type">>) = S("output_text")

FormatError(response) == Effect(<<Json(500, ErrorBody(MsgFormat))>>, <<>>, FALSE)
ParseError(jsonText) == Effect(<<Json(500, ErrorBody(MsgParse))>>, <<>>, FALSE)

\* The handler from the settlement of the awaited promise to its end.  The
\* client resolves the promise with an object, never with undefined or null.
AnalyzeResume(p) ==
  IF p.state = "rejected" THEN CatchAll(p.value)
  ELSE LET response == p.value
           content == FirstContent(response) IN
    IF ~IsOutputText(content) THEN FormatError(response)
    ELSE LET jsonText == GetProp(content, <<"text">>) IN
      Only({ IF ~parsed.ok THEN ParseError(jsonText)
             ELSE Effect(<<Json(200, parsed.val)>>, <<>>, FALSE)
             : parsed \in {JSON_parse(jsonText)} })

----------------------------------------------------------------------------
\* Requests the clients send

NoteProp == Prop("note", Null)
ImageProp(v) == Prop("imageBase64", v)

\* Bytes around the image in the body {"imageBase64":"..."}
Wrapper == ContentLength(Obj(<<ImageProp(Img(0, "none"))>>))

\* The longest image the handler accepts: exactly the limit
AcceptedImages == {Img(ImageLimit, "dataurl")}

\* Images over the handler's limit: just above it, in a body of exactly the
\* HTTP layer's limit, and in a body one byte over the HTTP layer's limit
OversizeImages ==
  {Img(ImageLimit + 1, "dataurl"), Img(ImageLimit + 1, "garbage"),
   Img(BodyLimit - Wrapper, "garbage"), Img(BodyLimit - Wrapper + 1, "dataurl")}

\* Values of imageBase64 that are not a non-empty string
NotAnImage == {Null, Num("7"), Img(0, "empty")}

JsonBodies ==
  {Obj(<<>>), Arr(<<>>), Obj(<<NoteProp>>)}
  \cup {Obj(<<ImageProp(v)>>) : v \in NotAnImage \cup AcceptedImages \cup OversizeImages}
  \cup {Obj(<<ImageProp(Num("7")), NoteProp>>)}

HttpRequests ==
  {[kind |-> "nobody"], [kind |-> "malformed"]}
  \cup {[kind |-> "json", body |-> b] : b \in JsonBodies}

NoRequest == [kind |-> "none"]

----------------------------------------------------------------------------
\* What the model provider answers

TObj == <<"{", Q, "overall_score", Q, ":", "7", "}">>
TInf == <<"{", Q, "overall_score", Q, ":", "1e400", "}">>
TArr == <<"[", "7", ",", "null", "]">>
TNull == <<"null">>

\* Texts that are JSON
JsonTexts == {TObj, TInf, TArr, TNull}

Truncated(text) == SubSeq(text, 1, Len(text) - 1)
StrayPrefixed(text) == <<"Here is the JSON:">> \o text
StrayTrailed(text) == text \o <<"Hope this helps!">>

\* Texts that are not JSON
MalformedTexts ==
  {Truncated(TObj), Truncated(TNull), StrayPrefixed(TObj), StrayTrailed(TObj)}

Block(type) == Obj(<<Prop("type", S(type))>>)
TextBlock(type, text) == Obj(<<Prop("type", S(type)), Prop("text", Str(text))>>)
Message(content) == Obj(<<Prop("type", S("message")), Prop("content", Arr(content))>>)
Response(output) == Obj(<<Prop("id", S("resp_1")), Prop("output", Arr(output))>>)

\* Responses whose first output item's first content item is an output_text block
TextResponses ==
  {Response(<<Message(<<TextBlock("output_text", t)>>)>>) : t \in JsonTexts \cup MalformedTexts}
  \cup {Response(<<Message(<<Block("output_text")>>)>>)}

\* Responses with no output_text block anywhere
NoTextResponses ==
  {Obj(<<Prop("id", S("resp_1"))>>),
   Response(<<>>),
   Response(<<Block("reasoning")>>),
   Response(<<Message(<<>>)>>),
   Response(<<Message(<<Block("refusal")>>)>>),
   Response(<<Message(<<TextBlock("summary_text", TObj)>>)>>)}

\* Responses with an output_text block that is not the first content item of
\* the first output item
LaterTextResponses ==
  {Response(<<Message(<<Block("refusal"), TextBlock("output_text", TObj)>>)>>),
   Response(<<Block("reasoning"), Message(<<TextBlock("output_text", TArr)>>)>>)}

Responses == TextResponses \cup NoTextResponses \cup LaterTextResponses

ProviderErrors ==
  {[name |-> "APIConnectionError", message |-> "Connection error."],
   [name |-> "BadRequestError", message |-> "400 Unknown parameter: response_format"]}

Pending == [state |-> "pending"]
Stalled == [state |-> "stalled"]
NoPromise == [state |-> "none"]
Fulfilled(response) == [state |-> "fulfilled", value |-> response]
Rejected(err) == [state |-> "rejected", value |-> err]

Settlements == {Fulfilled(x) : x \in Responses} \cup {Rejected(e) : e \in ProviderErrors}

IsSettled(p) == p.state \in {"fulfilled", "rejected"}

----------------------------------------------------------------------------
\* The state

VARIABLES
  pc,            \* where each request is: new, routed, awaiting, done
  httpReq,       \* the request as the client sent it
  reqBody,       \* req.body as the handler sees it
  sent,          \* the responses written for each request, in order
  created,       \* the arguments of the request's calls to client.responses.create
  promise,       \* the promise the request's handler awaits
  crashed,       \* an exception left a handler and ended the process
  afterFailure   \* the request arrived after a handler had caught an exception

vars == <<pc, httpReq, reqBody, sent, created, promise, crashed, afterFailure>>

Init ==
  /\ pc = [r \in Req |-> "new"]
  /\ httpReq = [r \in Req |-> NoRequest]
  /\ reqBody = [r \in Req |-> Undefined]
  /\ sent = [r \in Req |-> <<>>]
  /\ created = [r \in Req |-> <<>>]
  /\ promise = [r \in Req |-> NoPromise]
  /\ crashed = FALSE
  /\ afterFailure = [r \in Req |-> FALSE]

CaughtResponse == CatchAll(TypeError).send

\* A request arrives and goes through express.json
Receive(r, h) ==
  /\ ~crashed
  /\ pc[r] = "new"
  /\ httpReq' = [httpReq EXCEPT ![r] = h]
  /\ afterFailure' = [afterFailure EXCEPT ![r] = \E q \in Req : sent[q] = CaughtResponse]
  /\ LET j == JsonParser(h) IN
       IF j.error # <<>>
       THEN /\ sent' = [sent EXCEPT ![r] = j.error]
            /\ pc' = [pc EXCEPT ![r] = "done"]
            /\ UNCHANGED reqBody
       ELSE /\ \E b \in j.bodies : reqBody' = [reqBody EXCEPT ![r] = b]
            /\ pc' = [pc EXCEPT ![r] = "routed"]
            /\ UNCHANGED sent
  /\ UNCHANGED <<created, promise, crashed>>

\* The state after a run of handler code with effect e for request r
Apply(r, e) ==
  /\ sent' = [sent EXCEPT ![r] = @ \o e.send]
  /\ created' = [created EXCEPT ![r] = @ \o e.create]
  /\ crashed' = (crashed \/ e.escaped)
  /\ IF e.create # <<>>
     THEN /\ pc' = [pc EXCEPT ![r] = "awaiting"]
          /\ promise' = [promise EXCEPT ![r] = Pending]
     ELSE /\ pc' = [pc EXCEPT ![r] = "done"]
          /\ UNCHANGED promise

\* The handler runs from its entry to the await or to its return
Analyze(r) ==
  /\ ~crashed
  /\ pc[r] = "routed"
  /\ \E e \in {AnalyzeEntry(reqBody[r])} : Apply(r, e)
  /\ UNCHANGED <<httpReq, reqBody, afterFailure>>

\* The provider resolves or rejects the call of request r
Settle(r, p) ==
  /\ pc[r] = "awaiting"
  /\ promise[r] = Pending
  /\ promise' = [promise EXCEPT ![r] = p]
  /\ UNCHANGED <<pc, httpReq, reqBody, sent, created, crashed, afterFailure>>

\* The call of request r will never settle
Stall(r) ==
  /\ pc[r] = "awaiting"
  /\ promise[r] = Pending
  /\ promise' = [promise EXCEPT ![r] = Stalled]
  /\ UNCHANGED <<pc, httpReq, reqBody, sent, created, crashed, afterFailure>>

\* Mutant of AwaitedResult: the result is kept in a variable all handlers
\* share, so a handler may read the result of another request's call.
AwaitedShared(r) ==
  IF \E q \in Req : IsSettled(promise[q])
  THEN promise[CHOOSE q \in Req : IsSettled(promise[q])]
  ELSE promise[r]

\* What await client.responses.create(...) yields in the handler of request r
AwaitedResult(r) == promise[r]

\* What the rest of the handler does, for each way the call can settle
Resumed == [p \in Settlements |-> AnalyzeResume(p)]

\* The handler resumes after the await and runs to its end
Resume(r) ==
  /\ ~crashed
  /\ pc[r] = "awaiting"
  /\ IsSettled(AwaitedResult(r))
  /\ Apply(r, Resumed[AwaitedResult(r)])
  /\ UNCHANGED <<httpReq, reqBody, afterFailure>>

Next ==
  \/ \E r \in Req, h \in HttpRequests : Receive(r, h)
  \/ \E r \in Req : Analyze(r)
  \/ \E r \in Req, p \in Settlements : Settle(r, p)
  \/ \E r \in Req : Stall(r)
  \/ \E r \in Req : Resume(r)

Spec == Init /\ [][Next]_vars

\* One request and one settlement for each path through the handler
PathRequests ==
  {[kind |-> "nobody"], [kind |-> "malformed"]}
  \cup {[kind |-> "json", body |-> Obj(<<ImageProp(v)>>)] :
          v \in {Img(ImageLimit, "dataurl"), Img(ImageLimit + 1, "dataurl")}}

PathSettlements ==
  {Fulfilled(Response(<<Message(<<TextBlock("output_text", TObj)>>)>>)),
   Fulfilled(Response(<<Message(<<TextBlock("output_text", Truncated(TObj))>>)>>)),
   Fulfilled(Response(<<>>)),
   Rejected([name |-> "APIConnectionError", message |-> "Connection error."])}

NextPaths ==
  \/ \E r \in Req, h \in PathRequests : Receive(r, h)
  \/ \E r \in Req : Analyze(r)
  \/ \E r \in Req, p \in PathSettlements : Settle(r, p)
  \/ \E r \in Req : Stall(r)
  \/ \E r \in Req : Resume(r)

\* A step of a request that has arrived: its handler runs, or the provider
\* settles its call or leaves it unsettled for ever.
Progress ==
  \E r \in Req :
    Analyze(r) \/ Resume(r) \/ Stall(r) \/ \E p \in PathSettlements : Settle(r, p)

\* The event loop runs a handler that can run, and the provider decides the
\* fate of each call.
Fairness == WF_vars(Progress)

FairSpec == Init /\ [][NextPaths]_vars /\ Fairness

----------------------------------------------------------------------------
\* Vocabulary of the properties

Done(r) == pc[r] = "done"
Status(r) == sent[r][1].status
AnsweredOnce(r) == Len(sent[r]) = 1

\* The response is JSON text of an object with a string `error` field
HasErrorField(resp) ==
  LET p == JSON_parse_text(resp.body) IN
  /\ p.ok
  /\ p.val.t = "obj"
  /\ HasOwn(p.val, <<"error">>)
  /\ GetProp(p.val, <<"error">>).t = "str"

ErrorAnswer(r, status) ==
  AnsweredOnce(r) /\ Status(r) = status /\ HasErrorField(sent[r][1])

\* The value of imageBase64 in the request as sent, Undefined when there is none
SentImage(h) ==
  IF h.kind = "json" /\ h.body.t = "obj" /\ HasOwn(h.body, <<"imageBase64">>)
  THEN GetProp(h.body, <<"imageBase64">>)
  ELSE Undefined

\* The request passed both validation checks
Validated(r) ==
  /\ pc[r] \in {"awaiting", "done"}
  /\ ~Nullish(reqBody[r])
  /\ SentImage(httpReq[r]) \in AcceptedImages

\* The response whose first content item of the first output item is an
\* output_text block with this text
TextAtFirst(text) == Response(<<Message(<<TextBlock("output_text", text)>>)>>)

----------------------------------------------------------------------------
\* C1 (as stated): every request whose imageBase64 is missing or is not a
\* string is answered 400 with a JSON body that has an `error` field.
C1_MissingImageIs400 ==
  \A r \in Req :
    (Done(r) /\ SentImage(httpReq[r]).t # "str") => ErrorAnswer(r, 400)

----------------------------------------------------------------------------
\* The request carries an image string longer than the handler's limit
Oversize(r) ==
  /\ Done(r)
  /\ SentImage(httpReq[r]).t = "str"
  /\ SentImage(httpReq[r]).len > ImageLimit

----------------------------------------------------------------------------
\* C3 (as stated): when the first content item of the first output item is an
\* output_text block holding JSON text, the answer is 200 and its body, read
\* back, equals the value the text parses to.
C3_RoundTrip ==
  \A r \in Req : \A t \in JsonTexts :
    (Done(r) /\ Validated(r) /\ promise[r] = Fulfilled(TextAtFirst(t))) =>
      /\ AnsweredOnce(r)
      /\ Status(r) = 200
      /\ JSON_parse_text(sent[r][1].body) = JSON_parse_text(t)

----------------------------------------------------------------------------
\* C4: a validated request whose upstream response has no output_text block
\* is answered 500 with an `error` field, and no exception leaves the handler.
C4_NoTextBlockIs500 ==
  \A r \in Req :
    (Done(r) /\ Validated(r) /\ promise[r].state = "fulfilled"
       /\ promise[r].value \in NoTextResponses) =>
      (ErrorAnswer(r, 500) /\ ~crashed)

\* A response whose only block has another type, with a text field, was answered.
C4_Witness ==
  \E r \in Req :
    /\ Done(r) /\ Validated(r)
    /\ promise[r] = Fulfilled(Response(<<Message(<<TextBlock("summary_text", TObj)>>)>>))
    /\ sent[r] # <<>>

----------------------------------------------------------------------------
\* The output_text block of the response of request r holds text that is not
\* JSON, or holds no text
MalformedText(r) ==
  /\ promise[r].state = "fulfilled"
  /\ \/ \E t \in MalformedTexts : promise[r].value = TextAtFirst(t)
     \/ promise[r].value = Response(<<Message(<<Block("output_text")>>)>>)

\* C5: a validated request whose output_text block holds text that is not
\* JSON (truncated, with stray characters, absent) is answered 500 with an
\* `error` field, never 200.
C5_MalformedTextIs500 ==
  \A r \in Req :
    (Done(r) /\ Validated(r) /\ MalformedText(r)) => ErrorAnswer(r, 500)

\* JSON text followed by stray characters was answered.
C5_Witness ==
  \E r \in Req :
    /\ Done(r) /\ Validated(r)
    /\ promise[r] = Fulfilled(TextAtFirst(StrayTrailed(TObj)))
    /\ sent[r] # <<>>

----------------------------------------------------------------------------
\* What the handler answers to a request with this req.body whose call, if it
\* makes one, settles as p
OwnAnswer(body, p) ==
  LET e == AnalyzeEntry(body) IN
  IF e.create = <<>> THEN e.send
  ELSE IF IsSettled(p) THEN AnalyzeResume(p).send
  ELSE <<>>

\* What belongs to request r
Own(r) == <<pc[r], httpReq[r], reqBody[r], sent[r], created[r], promise[r]>>

\* A step changes what belongs to one request at most
OneRequestPerStep ==
  \A r, q \in Req : (r # q /\ Own(r)' # Own(r)) => Own(q)' = Own(q)

\* Every answer of a handler is the answer to its own req.body and its own
\* upstream result
OwnAnswerOnly ==
  \A r \in Req :
    (Done(r) /\ httpReq[r].kind \in {"nobody", "json"} /\ JsonParser(httpReq[r]).error = <<>>)
      => sent[r] = OwnAnswer(reqBody[r], promise[r])

\* C6: under any interleaving, the answer to a request is determined by its
\* own imageBase64 and its own upstream result, and a step of one request
\* leaves what belongs to the others unchanged.
C6_NoCrossRequestLeak == []OwnAnswerOnly /\ [][OneRequestPerStep]_vars

\* Two requests were answered, one with the parsed text of its own call and
\* the other with the error of its own rejected call.
C6_Witness ==
  \E r, q \in Req :
    /\ Done(r) /\ promise[r] = Fulfilled(TextAtFirst(TObj)) /\ Status(r) = 200
    /\ Done(q) /\ promise[q].state = "rejected" /\ Status(q) = 500

----------------------------------------------------------------------------
\* An exception was thrown in the handler of request r: req.body could not be
\* destructured, or the awaited call rejected
Threw(r) ==
  \/ pc[r] = "done" /\ httpReq[r].kind = "nobody" /\ Nullish(reqBody[r])
  \/ pc[r] = "done" /\ promise[r].state = "rejected"

Thrown(r) == IF promise[r].state = "rejected" THEN promise[r].value ELSE TypeError

\* C7: every exception thrown in a handler is answered 500 with the fixed
\* message, which holds nothing of the exception; the process stays up, and a
\* request that arrives afterwards is answered as any other.
C7_FailuresCaught ==
  /\ ~crashed
  /\ \A r \in Req :
       Threw(r) =>
         /\ sent[r] = <<[status |-> 500,
                         body |-> <<"{", Q, "error", Q, ":", Q, MsgInternal, Q, "}">>,
                         by |-> "handler"]>>
         /\ \A i \in 1..Len(sent[r][1].body) :
              sent[r][1].body[i] \notin {Thrown(r).name, Thrown(r).message}
  /\ \A r \in Req :
       (afterFailure[r] /\ Done(r) /\ Validated(r)
          /\ promise[r] = Fulfilled(TextAtFirst(TObj))) =>
         (AnsweredOnce(r) /\ Status(r) = 200 /\ sent[r][1].body = TObj)

\* A call rejected and was answered 500; a request that arrived after that
\* was answered 200.
C7_Witness ==
  \E r, q \in Req :
    /\ Done(q) /\ promise[q].state = "rejected" /\ Status(q) = 500
    /\ afterFailure[r] /\ Done(r) /\ Status(r) = 200

----------------------------------------------------------------------------
\* C8: a request makes one call to the provider when it passes validation and
\* none when it does not, never more than one whatever the call results in,
\* and a request answered 400 has made no call.
C8_OneCallPerRequest ==
  \A r \in Req :
    /\ Len(created[r]) <= 1
    /\ (Done(r) /\ Validated(r)) => Len(created[r]) = 1
    /\ (sent[r] # <<>> /\ Status(r) = 400) => created[r] = <<>>
    /\ (created[r] # <<>>) => created[r][1].input[2].image_url = SentImage(httpReq[r])

\* A request whose response had no text block was answered, and another was
\* answered 400.
C8_Witness ==
  \E r, q \in Req :
    /\ Done(r) /\ Validated(r) /\ promise[r] = Fulfilled(Response(<<>>)) /\ Status(r) = 500
    /\ Done(q) /\ Status(q) = 400 /\ sent[q][1].by = "handler"

----------------------------------------------------------------------------
\* The response of request r has an output_text block somewhere
HasTextBlockSomewhere(r) ==
  /\ promise[r].state = "fulfilled"
  /\ promise[r].value \in TextResponses \cup LaterTextResponses

FormatErrorAnswer == FormatError(Undefined).send

\* C9 (as stated): the format error is answered only if the response has no
\* output_text block at any position.
C9_FormatErrorOnlyWithoutTextBlock ==
  \A r \in Req :
    (Done(r) /\ Validated(r) /\ HasTextBlockSomewhere(r)) => sent[r] # FormatErrorAnswer

\* C9 (amended): the handler looks only at the first content item of the
\* first output item: the format error is answered exactly when that item is
\* not an output_text block, also when an output_text block comes later; and
\* when it is one, its text is the text parsed and returned.
C9_OnlyFirstContentOfFirstItem ==
  \A r \in Req :
    (Done(r) /\ Validated(r) /\ promise[r].state = "fulfilled") =>
      /\ (sent[r] = FormatErrorAnswer) <=> (promise[r].value \notin TextResponses)
      /\ \A t \in JsonTexts :
           promise[r].value = TextAtFirst(t) =>
             (AnsweredOnce(r) /\ Status(r) = 200
                /\ sent[r][1].body = JSON_stringify(JSON_parse_text(t).val))

\* A response whose output_text block is in the second output item was
\* answered with the format error.
C9_Witness ==
  \E r \in Req :
    /\ Done(r) /\ Validated(r)
    /\ promise[r] =
         Fulfilled(Response(<<Block("reasoning"), Message(<<TextBlock("output_text", TArr)>>)>>))
    /\ sent[r] = FormatErrorAnswer

----------------------------------------------------------------------------
\* A request is answered once at most, and exactly once when it is done
ExactlyOnce ==
  \A r \in Req : Len(sent[r]) <= 1 /\ (Done(r) <=> Len(sent[r]) = 1)

\* A request whose call never settles stays unanswered
StalledStaysUnanswered ==
  \A r \in Req :
    promise[r] = Stalled => (sent[r] = <<>> /\ promise'[r] = Stalled /\ sent'[r] = <<>>)

\* C10: a request is answered exactly once on every path; a request that
\* reached the handler is eventually answered unless its call never settles;
\* and a request whose call never settles is never answered.
C10_AnsweredExactlyOnce ==
  /\ []ExactlyOnce
  /\ \A r \in Req : (pc[r] # "new") ~> (Done(r) \/ promise[r] = Stalled)
  /\ [][StalledStaysUnanswered]_vars

\* One request was answered 200 while the call of another never settles.
C10_Witness ==
  \E r, q \in Req :
    /\ Done(r) /\ AnsweredOnce(r) /\ Status(r) = 200
    /\ promise[q] = Stalled /\ sent[q] = <<>>

====
